---- MODULE Spec2Model ----
(***************************************************************************)
(* A model of three parts of the ai8x-training repository:                 *)
(*   - convert_checkpoint (ai84ize.py): the checkpoint to fixed-point      *)
(*     converter, specification SpecConvert;                               *)
(*   - main's training loop and train() (train.py), specification          *)
(*     SpecTrain;                                                          *)
(*   - normalize.__call__ (train.py), specification SpecNormalize.         *)
(*                                                                         *)
(* Tensor elements are IEEE floating-point numbers in the code.  They are  *)
(* modelled as extended rationals: a finite value n/d in lowest terms, or  *)
(* one of NaN, +inf, -inf, with the IEEE rules for the special values      *)
(* (0 * inf = NaN, inf - inf = NaN, NaN propagates through arithmetic,     *)
(* clamp, round, min and max).                                             *)
(***************************************************************************)
EXTENDS Integers, Sequences, FiniteSets, TLC

VARIABLES
    \* ---- convert_checkpoint (ai84ize.py)
    arguments,            \* parsed command line: quantized, embedded, clip_mode
    input_file,           \* the content of the input file, never changed
    checkpoint,           \* the loaded checkpoint: top-level key -> value
    checkpoint_state,     \* checkpoint['state_dict'], an ordered dict
    new_checkpoint_state, \* the converted copy, an ordered dict
    sat_fn,               \* name of the saturation function selected
    keys_left,            \* keys the for loop of line 84 has still to visit
    factor_log,           \* the (key, function, factor) triples of lines 96/98
    converted,            \* keys written by line 111 or line 131
    c_pc,                 \* position in convert_checkpoint
    c_exc,                \* exception that ended convert_checkpoint, or "none"
    file_writes,          \* what torch.save wrote, one element per call
    printed,              \* keys of the '#define' blocks printed, in order
    \* ---- main / train (train.py)
    t_pc,                 \* position in main() and train()
    start_epoch,
    ending_epoch,
    epoch,
    steps_per_epoch,
    train_step,
    compression_scheduler,\* TRUE when a scheduler object is present
    calls,                \* the calls made so far, in order
    t_exc,
    \* ---- normalize (train.py)
    act_mode_8bit,
    img,                  \* one pixel, img / PixelDen
    n_result,             \* the value returned for the pixel
    n_pc

cvars == <<arguments, input_file, checkpoint, checkpoint_state, new_checkpoint_state, sat_fn,
           keys_left, factor_log, converted, c_pc, c_exc, file_writes, printed>>
tvars == <<t_pc, start_epoch, ending_epoch, epoch, steps_per_epoch, train_step,
           compression_scheduler, calls, t_exc>>
nvars == <<act_mode_8bit, img, n_result, n_pc>>
vars == <<cvars, tvars, nvars>>

-----------------------------------------------------------------------------
(* Bounds of the model *)

\* finite tensor elements are the integers -MaxVal .. MaxVal
MaxVal == 2
\* epochs are numbered 0 .. MaxEpochs
MaxEpochs == 2
\* a training epoch has 0 .. MaxSteps mini-batches
MaxSteps == 2
\* pixels are the multiples of 1/PixelDen
PixelDen == 255

-----------------------------------------------------------------------------
(* Extended rationals *)

RECURSIVE GCD(_, _)
GCD(a, b) == IF b = 0 THEN a ELSE GCD(b, a % b)

AbsInt(n) == IF n < 0 THEN -n ELSE n

NaN == [k |-> "nan", n |-> 0, d |-> 1]
PInf == [k |-> "pinf", n |-> 0, d |-> 1]
NInf == [k |-> "ninf", n |-> 0, d |-> 1]

\* the finite value n/d (d > 0), in lowest terms
Fin(n, d) ==
    LET g == GCD(AbsInt(n), d)
    IN  [k |-> "fin", n |-> n \div g, d |-> d \div g]

Int2F(n) == Fin(n, 1)

IsNaN(x) == x.k = "nan"
IsFin(x) == x.k = "fin"
IsInf(x) == x.k \in {"pinf", "ninf"}

\* -1, 0 or 1; x is not NaN
Sign(x) ==
    CASE x.k = "pinf" -> 1
      [] x.k = "ninf" -> -1
      [] OTHER -> IF x.n > 0 THEN 1 ELSE IF x.n < 0 THEN -1 ELSE 0

Neg(x) ==
    CASE x.k = "nan" -> NaN
      [] x.k = "pinf" -> NInf
      [] x.k = "ninf" -> PInf
      [] OTHER -> Fin(-x.n, x.d)

Mul(x, y) ==
    IF IsNaN(x) \/ IsNaN(y) THEN NaN
    ELSE IF IsInf(x) \/ IsInf(y)
         THEN IF Sign(x) * Sign(y) = 0 THEN NaN
              ELSE IF Sign(x) * Sign(y) > 0 THEN PInf ELSE NInf
         ELSE Fin(x.n * y.n, x.d * y.d)

Add(x, y) ==
    IF IsNaN(x) \/ IsNaN(y) THEN NaN
    ELSE IF IsInf(x) /\ IsInf(y) THEN (IF x.k = y.k THEN x ELSE NaN)
    ELSE IF IsInf(x) THEN x
    ELSE IF IsInf(y) THEN y
    ELSE Fin(x.n * y.d + y.n * x.d, x.d * y.d)

Sub(x, y) == Add(x, Neg(y))

\* x < y; neither is NaN
Lt(x, y) ==
    IF x.k = "ninf" THEN y.k # "ninf"
    ELSE IF x.k = "pinf" THEN FALSE
    ELSE IF y.k = "pinf" THEN TRUE
    ELSE IF y.k = "ninf" THEN FALSE
    ELSE x.n * y.d < y.n * x.d

Leq(x, y) == ~Lt(y, x)

\* abs_()
AbsF(x) == IF IsNaN(x) THEN NaN ELSE IF Sign(x) < 0 THEN Neg(x) ELSE x

\* torch.max of two values: NaN propagates
MaxF(x, y) == IF IsNaN(x) \/ IsNaN(y) THEN NaN ELSE IF Lt(x, y) THEN y ELSE x

\* torch.min of two values: NaN propagates
MinF(x, y) == IF IsNaN(x) \/ IsNaN(y) THEN NaN ELSE IF Lt(y, x) THEN y ELSE x

\* floor of n/d, d > 0 (\div of TLA+ rounds towards minus infinity)
FloorDiv(n, d) == n \div d

\* round(): to the nearest integer, ties to the even one; NaN and the
\* infinities are returned unchanged
RoundF(x) ==
    IF ~IsFin(x) THEN x
    ELSE LET fl == FloorDiv(x.n, x.d)
             twice == 2 * (x.n - fl * x.d)   \* 2 * fractional part * d
         IN  IF twice < x.d THEN Int2F(fl)
             ELSE IF twice > x.d THEN Int2F(fl + 1)
             ELSE IF fl % 2 = 0 THEN Int2F(fl) ELSE Int2F(fl + 1)

\* clamp(min=lo, max=hi) of one element: NaN stays NaN
ClampF(x, lo, hi) ==
    IF IsNaN(x) THEN NaN
    ELSE IF Lt(x, Int2F(lo)) THEN Int2F(lo)
    ELSE IF Lt(Int2F(hi), x) THEN Int2F(hi)
    ELSE x

IsInteger(x) == IsFin(x) /\ x.d = 1

InRange(x, lo, hi) == IsInteger(x) /\ lo <= x.n /\ x.n <= hi

RECURSIVE Pow2(_)
Pow2(e) == IF e = 0 THEN 1 ELSE 2 * Pow2(e - 1)

\* the largest r with r * r <= x, for x >= 0
RECURSIVE ISqrtFrom(_, _)
ISqrtFrom(x, r) == IF (r + 1) * (r + 1) > x THEN r ELSE ISqrtFrom(x, r + 1)

\* square root of a non-negative value, rounded down to a multiple of 1/16
\* (the code computes it in floating point; no property checked here
\* depends on its last digits)
SqrtF(x) ==
    IF IsNaN(x) THEN NaN
    ELSE IF x.k = "pinf" THEN PInf
    ELSE Fin(ISqrtFrom((x.n * 256) \div x.d, 0), 16)

-----------------------------------------------------------------------------
(* Tensors: a tensor is a sequence of rows (its first dimension), each row  *)
(* the sequence of the elements under it.                                   *)

RECURSIVE Flatten(_)
Flatten(t) == IF t = <<>> THEN <<>> ELSE Head(t) \o Flatten(Tail(t))

RECURSIVE FoldMin(_)
FoldMin(s) == IF Len(s) = 1 THEN s[1] ELSE MinF(s[1], FoldMin(Tail(s)))

RECURSIVE FoldMax(_)
FoldMax(s) == IF Len(s) = 1 THEN s[1] ELSE MaxF(s[1], FoldMax(Tail(s)))

RECURSIVE FoldSum(_)
FoldSum(s) == IF s = <<>> THEN Int2F(0) ELSE Add(s[1], FoldSum(Tail(s)))

\* mean() of a non-empty sequence of elements
MeanSeq(s) == Mul(FoldSum(s), Fin(1, Len(s)))

\* t.min(), t.max(), t.mean()
TMin(t) == FoldMin(Flatten(t))
TMax(t) == FoldMax(Flatten(t))
TMean(t) == MeanSeq(Flatten(t))

\* t.std(): the unbiased estimate, NaN for a single element (0/0)
TStd(t) ==
    LET s == Flatten(t)
        m == MeanSeq(s)
        sq == [i \in DOMAIN s |-> Mul(Sub(s[i], m), Sub(s[i], m))]
    IN  IF Len(s) = 1 THEN NaN
        ELSE SqrtF(Mul(FoldSum(sq), Fin(1, Len(s) - 1)))

\* mutant: every element has to be nonzero
AllNonzero(t) ==
    \A i \in DOMAIN t : \A j \in DOMAIN t[i] : t[i][j] # Int2F(0)

\* t.nonzero().numel() != 0
HasNonzero(t) ==
    \E i \in DOMAIN t : \E j \in DOMAIN t[i] : t[i][j] # Int2F(0)

-----------------------------------------------------------------------------
(* Program constants of ai84ize.py *)

CONV_SCALE_BITS == 8
FC_SCALE_BITS == 8
FC_CLAMP_BITS == 16
\* ai84.WEIGHT_BITS: module ai84 is imported (line 16) and is not part of
\* the sources modelled
WEIGHT_BITS == 8

\* get_const's value 0.6372803137, cut to four digits
MagicConst == Fin(6373, 10000)

-----------------------------------------------------------------------------
(* The saturation functions, lines 51-70 *)

avg_max(t) ==
    LET mins == [i \in DOMAIN t |-> FoldMin(t[i])]
        maxs == [i \in DOMAIN t |-> FoldMax(t[i])]
    IN  MaxF(AbsF(MeanSeq(mins)), AbsF(MeanSeq(maxs)))

max_max(t) == MaxF(AbsF(TMin(t)), AbsF(TMax(t)))

mean_n_stds_max_abs(t, n_stds) ==
    LET mean == TMean(t)
        std == TStd(t)
        min_val == MaxF(TMin(t), Sub(mean, Mul(Int2F(n_stds), std)))
        max_val == MinF(TMax(t), Add(mean, Mul(Int2F(n_stds), std)))
    IN  MaxF(AbsF(min_val), AbsF(max_val))

get_const(t) == MagicConst

\* the function a name stands for
ApplySat(fn, t) ==
    CASE fn = "mean_n_stds_max_abs_2" -> mean_n_stds_max_abs(t, 2)
      [] fn = "max_max" -> max_max(t)
      [] fn = "avg_max" -> avg_max(t)
      [] OTHER -> get_const(t)

\* mutant: the branches of 'MAX' and 'AVGMAX' exchanged
SelectSatFnSwapped(clip_mode) ==
    IF clip_mode = "STD" THEN "mean_n_stds_max_abs_2"
    ELSE IF clip_mode = "MAX" THEN "avg_max"
    ELSE IF clip_mode = "AVGMAX" THEN "max_max"
    ELSE "get_const"

\* lines 74-81
SelectSatFn(clip_mode) ==
    IF clip_mode = "STD" THEN "mean_n_stds_max_abs_2"
    ELSE IF clip_mode = "MAX" THEN "max_max"
    ELSE IF clip_mode = "AVGMAX" THEN "avg_max"
    ELSE "get_const"

\* line 82
fc_sat_fn == "get_const"

-----------------------------------------------------------------------------
(* Ordered dictionaries: a sequence of [key, val] records, keys distinct,   *)
(* in insertion order.  A key is the sequence of its dot-separated parts.   *)

Keys(d) == [i \in DOMAIN d |-> d[i].key]
HasKey(d, k) == \E i \in DOMAIN d : d[i].key = k
Get(d, k) == d[CHOOSE i \in DOMAIN d : d[i].key = k].val
Del(d, k) == SelectSeq(d, LAMBDA e : e.key # k)
Put(d, k, v) ==
    IF HasKey(d, k)
    THEN [i \in DOMAIN d |-> IF d[i].key = k THEN [key |-> k, val |-> v] ELSE d[i]]
    ELSE Append(d, [key |-> k, val |-> v])

Front(s) == SubSeq(s, 1, Len(s) - 1)
Last(s) == s[Len(s)]

-----------------------------------------------------------------------------
(* Inputs of convert_checkpoint *)

FiniteVals == {Int2F(n) : n \in -MaxVal .. MaxVal}
Vals == FiniteVals \cup {NaN, PInf, NInf}

\* one-element tensors of any value, and two-row tensors of a value that is
\* not positive and one that is
WeightTensors ==
    {<< <<v>> >> : v \in Vals}
    \cup {<< <<p[1]>>, <<p[2]>> >> :
             p \in {q \in FiniteVals \X FiniteVals : Sign(q[1]) <= 0 /\ Sign(q[2]) > 0}}

ScaleTensors == {<< <<v>> >> : v \in Vals}

ZeroPointTensors == {<< <<Int2F(0)>> >>, << <<Int2F(0)>>, <<Int2F(1)>> >>}

OtherTensors == {<< <<Int2F(1)>> >>}

WeightKeys ==
    {<<"conv1", "weight">>, <<"features", "0", "bias">>,
     <<"conv1", "wrapped_module", "weight">>, <<"fc", "wrapped_module", "bias">>}
ScaleKeys == {<<"conv1", "w_scale">>, <<"fc", "b_scale">>}
ZeroPointKeys == {<<"conv1", "w_zero_point">>, <<"fc", "b_zero_point">>}
OtherKeys == {<<"fc", "base_b_q">>}

Entries ==
    {[key |-> k, val |-> t] : k \in WeightKeys, t \in WeightTensors}
    \cup {[key |-> k, val |-> t] : k \in ScaleKeys, t \in ScaleTensors}
    \cup {[key |-> k, val |-> t] : k \in ZeroPointKeys, t \in ZeroPointTensors}
    \cup {[key |-> k, val |-> t] : k \in OtherKeys, t \in OtherTensors}

\* state dicts of at most two entries, in any order
StateDicts ==
    {<<>>} \cup {<<e>> : e \in Entries}
    \cup {<<p[1], p[2]>> : p \in {q \in Entries \X Entries : q[1].key # q[2].key}}

ClipModes == {"AVGMAX", "MAX", "STD", "SCALE"}

\* the content of the input file apart from 'state_dict'
CheckpointShells ==
    {[x \in {"epoch"} |-> "e"],
     [x \in {"epoch", "quantizer_metadata"} |-> IF x = "epoch" THEN "e" ELSE "m"]}

\* f extended or overwritten at key k
With(f, k, v) == [x \in DOMAIN f \cup {k} |-> IF x = k THEN v ELSE f[x]]
Without(f, k) == [x \in DOMAIN f \ {k} |-> f[x]]

TrainIdle ==
    /\ t_pc = "idle" /\ start_epoch = 0 /\ ending_epoch = 0 /\ epoch = 0
    /\ steps_per_epoch = 0 /\ train_step = 0 /\ compression_scheduler = TRUE
    /\ calls = <<>> /\ t_exc = "none"

NormalizeIdle ==
    /\ act_mode_8bit = FALSE /\ img = 0 /\ n_result = Int2F(0) /\ n_pc = "idle"

ConvertIdle ==
    /\ arguments = [quantized |-> FALSE, embedded |-> FALSE, clip_mode |-> "SCALE"]
    /\ input_file = [x \in {"epoch"} |-> "e"]
    /\ checkpoint = input_file
    /\ checkpoint_state = <<>> /\ new_checkpoint_state = <<>>
    /\ sat_fn = "none" /\ keys_left = <<>> /\ factor_log = <<>> /\ converted = {}
    /\ c_pc = "idle" /\ c_exc = "none" /\ file_writes = <<>> /\ printed = <<>>

\* lines 147-161 and line 31: the arguments are parsed and the file is loaded
InitConvert ==
    /\ arguments \in [quantized : BOOLEAN, embedded : BOOLEAN, clip_mode : ClipModes]
    /\ \E shell \in CheckpointShells :
         \/ input_file = shell
         \/ \E sd \in StateDicts : input_file = With(shell, "state_dict", sd)
    /\ checkpoint = input_file
    /\ checkpoint_state = <<>>
    /\ new_checkpoint_state = <<>>
    /\ sat_fn = "none"
    /\ keys_left = <<>>
    /\ factor_log = <<>>
    /\ converted = {}
    /\ c_pc = "start"
    /\ c_exc = "none"
    /\ file_writes = <<>>
    /\ printed = <<>>
    /\ TrainIdle
    /\ NormalizeIdle

Raise(e) ==
    /\ c_pc' = "raised"
    /\ c_exc' = e

\* mutant: the metadata check made whether or not --quantized is given
MetadataMissingAlways == "quantizer_metadata" \notin DOMAIN checkpoint

\* lines 36-37
MetadataMissing ==
    arguments.quantized /\ "quantizer_metadata" \notin DOMAIN checkpoint

\* line 41
StateDictMissing == "state_dict" \notin DOMAIN checkpoint

\* lines 36-38: --quantized and no quantizer_metadata
RaiseNoMetadata ==
    /\ c_pc = "start"
    /\ MetadataMissing
    /\ Raise("RuntimeError")
    /\ UNCHANGED <<tvars, nvars, arguments, input_file, checkpoint, checkpoint_state, new_checkpoint_state,
                   sat_fn, keys_left, factor_log, converted, file_writes, printed>>

\* line 39
AfterMetadata ==
    IF arguments.quantized THEN Without(checkpoint, "quantizer_metadata") ELSE checkpoint

\* mutant: no check of line 41, so that line 44's lookup raises KeyError
RaiseNoStateDictKeyError ==
    /\ c_pc = "start"
    /\ ~MetadataMissing
    /\ StateDictMissing
    /\ checkpoint' = AfterMetadata
    /\ Raise("KeyError")
    /\ UNCHANGED <<tvars, nvars, arguments, input_file, checkpoint_state, new_checkpoint_state,
                   sat_fn, keys_left, factor_log, converted, file_writes, printed>>

\* lines 41-42: no state_dict
RaiseNoStateDict ==
    /\ c_pc = "start"
    /\ ~MetadataMissing
    /\ StateDictMissing
    /\ checkpoint' = AfterMetadata
    /\ Raise("RuntimeError")
    /\ UNCHANGED <<tvars, nvars, arguments, input_file, checkpoint_state, new_checkpoint_state,
                   sat_fn, keys_left, factor_log, converted, file_writes, printed>>

\* lines 36-82 when nothing is raised
Prepare ==
    /\ c_pc = "start"
    /\ ~MetadataMissing
    /\ ~StateDictMissing
    /\ checkpoint' = AfterMetadata
    /\ checkpoint_state' = checkpoint["state_dict"]
    /\ new_checkpoint_state' = checkpoint["state_dict"]
    /\ sat_fn' = SelectSatFn(arguments.clip_mode)
    /\ keys_left' = Keys(checkpoint["state_dict"])
    /\ c_pc' = "loop"
    /\ UNCHANGED <<tvars, nvars, arguments, input_file, factor_log, converted, c_exc, file_writes, printed>>

-----------------------------------------------------------------------------
(* The loop of lines 84-135, one iteration per action *)

\* the key the iteration works on, and line 85's rsplit of it
CurKey == Head(keys_left)
Operation(k) == Front(k)
Parameter(k) == Last(k)

InLoop == c_pc = "loop" /\ keys_left # <<>>

\* line 93, and line 119-120 for the clamp width
ClampBits(is_fc) == IF ~is_fc THEN WEIGHT_BITS ELSE FC_CLAMP_BITS

\* line 119-120 for the scale width
ScaleBits(is_fc) == IF ~is_fc THEN CONV_SCALE_BITS ELSE FC_SCALE_BITS

\* line 108 and lines 128-129: clamp(min=-(2**(bits-1)), max=2**(bits-1)-1).round()
ClampRound(t, bits) ==
    [i \in DOMAIN t |->
        [j \in DOMAIN t[i] |->
            RoundF(ClampF(t[i][j], -Pow2(bits - 1), Pow2(bits - 1) - 1))]]

\* t multiplied by the scalar f
Scaled(t, f) == [i \in DOMAIN t |-> [j \in DOMAIN t[i] |-> Mul(f, t[i][j])]]

\* lines 96 and 98
Factor(bits, fn, t) == Mul(Int2F(Pow2(bits - 1)), ApplySat(fn, t))

\* range_linear_ai84.pow2_round(val, bits), imported at line 17: the values
\* it may return.  Its code is not among the sources; it is taken to return
\* NaN for NaN and otherwise some power of two.
Pow2RoundResults(val, bits) ==
    IF IsNaN(val) THEN {NaN} ELSE {Fin(1, 2), Int2F(1), Int2F(4)}

\* lines 86-88: a zero point that is not zero
ZeroPointRaise ==
    /\ InLoop
    /\ Parameter(CurKey) \in {"w_zero_point", "b_zero_point"}
    /\ HasNonzero(Get(checkpoint_state, CurKey))
    /\ Raise("RuntimeError")
    /\ UNCHANGED <<tvars, nvars, arguments, input_file, checkpoint, checkpoint_state, new_checkpoint_state,
                   sat_fn, keys_left, factor_log, converted, file_writes, printed>>

\* lines 86-89: a zero point that is zero is dropped
ZeroPointDrop ==
    /\ InLoop
    /\ Parameter(CurKey) \in {"w_zero_point", "b_zero_point"}
    /\ ~HasNonzero(Get(checkpoint_state, CurKey))
    /\ new_checkpoint_state' = Del(new_checkpoint_state, CurKey)
    /\ keys_left' = Tail(keys_left)
    /\ UNCHANGED <<tvars, nvars, arguments, input_file, checkpoint, checkpoint_state, sat_fn, factor_log,
                   converted, c_pc, c_exc, file_writes, printed>>

\* lines 91-111: a floating-point weight or bias
ConvertFloat ==
    /\ InLoop
    /\ Parameter(CurKey) \in {"weight", "bias"}
    /\ ~arguments.quantized
    /\ LET k == CurKey
           module == k[1]
           clamp_bits == ClampBits(module = "fc")
           fn == IF module # "fc" THEN sat_fn ELSE fc_sat_fn
           factor == Factor(clamp_bits, fn, Get(checkpoint_state, k))
           weights == ClampRound(Scaled(Get(checkpoint_state, k), factor), clamp_bits)
       IN  /\ new_checkpoint_state' = Put(new_checkpoint_state, k, weights)
           /\ factor_log' = Append(factor_log, [key |-> k, fn |-> fn, factor |-> factor])
           /\ converted' = converted \cup {k}
    /\ keys_left' = Tail(keys_left)
    /\ UNCHANGED <<tvars, nvars, arguments, input_file, checkpoint, checkpoint_state, sat_fn,
                   c_pc, c_exc, file_writes, printed>>

\* line 114: a key with a single dot has nothing to unpack into (module, st)
QuantizedUnpackError ==
    /\ InLoop
    /\ Parameter(CurKey) \in {"weight", "bias"}
    /\ arguments.quantized
    /\ Len(Operation(CurKey)) < 2
    /\ Raise("ValueError")
    /\ UNCHANGED <<tvars, nvars, arguments, input_file, checkpoint, checkpoint_state, new_checkpoint_state,
                   sat_fn, keys_left, factor_log, converted, file_writes, printed>>

\* lines 114-115: a weight or bias that is not under wrapped_module is kept
QuantizedNotWrapped ==
    /\ InLoop
    /\ Parameter(CurKey) \in {"weight", "bias"}
    /\ arguments.quantized
    /\ Len(Operation(CurKey)) >= 2
    /\ Last(Operation(CurKey)) # "wrapped_module"
    /\ keys_left' = Tail(keys_left)
    /\ UNCHANGED <<tvars, nvars, arguments, input_file, checkpoint, checkpoint_state, new_checkpoint_state,
                   sat_fn, factor_log, converted, c_pc, c_exc, file_writes, printed>>

\* line 116/118: module + '.' + parameter[0] + '_scale'
ScaleKey(k) ==
    Front(Operation(k))
        \o <<IF Parameter(k) = "weight" THEN "w_scale" ELSE "b_scale">>

\* line 131: module + '.' + parameter
OutputKey(k) == Front(Operation(k)) \o <<Parameter(k)>>

QuantizedWrapped ==
    /\ InLoop
    /\ Parameter(CurKey) \in {"weight", "bias"}
    /\ arguments.quantized
    /\ Len(Operation(CurKey)) >= 2
    /\ Last(Operation(CurKey)) = "wrapped_module"

\* line 121: the scale is not in the state dict
QuantizedScaleMissing ==
    /\ QuantizedWrapped
    /\ ~HasKey(checkpoint_state, ScaleKey(CurKey))
    /\ Raise("KeyError")
    /\ UNCHANGED <<tvars, nvars, arguments, input_file, checkpoint, checkpoint_state, new_checkpoint_state,
                   sat_fn, keys_left, factor_log, converted, file_writes, printed>>

\* lines 131-133
StoreQuantized(d, k, weights) ==
    Del(Del(Put(d, OutputKey(k), weights), k), ScaleKey(k))

\* lines 117-133, module is not 'fc': the weights are scaled in place
ConvertQuantizedConv ==
    /\ QuantizedWrapped
    /\ HasKey(checkpoint_state, ScaleKey(CurKey))
    /\ Front(Operation(CurKey)) # <<"fc">>
    /\ LET k == CurKey
           clamp_bits == ClampBits(FALSE)
           fp_scale == Get(checkpoint_state, ScaleKey(k))[1][1]
       IN  \E p \in Pow2RoundResults(fp_scale, ScaleBits(FALSE)) :
             LET scaled == Scaled(Get(checkpoint_state, k), p)
             IN  /\ checkpoint_state' = Put(checkpoint_state, k, scaled)
                 /\ checkpoint' = With(checkpoint, "state_dict", checkpoint_state')
                 /\ new_checkpoint_state' =
                        StoreQuantized(new_checkpoint_state, k,
                                       ClampRound(scaled, clamp_bits))
                 /\ converted' = converted \cup {OutputKey(k)}
    /\ keys_left' = Tail(keys_left)
    /\ UNCHANGED <<tvars, nvars, arguments, input_file, sat_fn, factor_log, c_pc, c_exc, file_writes, printed>>

\* line 127: torch.round(weights * fp_scale)
RoundT(t) == [i \in DOMAIN t |-> [j \in DOMAIN t[i] |-> RoundF(t[i][j])]]

\* lines 117-133, module is 'fc'
ConvertQuantizedFc ==
    /\ QuantizedWrapped
    /\ HasKey(checkpoint_state, ScaleKey(CurKey))
    /\ Front(Operation(CurKey)) = <<"fc">>
    /\ LET k == CurKey
           clamp_bits == ClampBits(TRUE)
           fp_scale == Get(checkpoint_state, ScaleKey(k))[1][1]
           weights == RoundT(Scaled(Get(checkpoint_state, k), fp_scale))
       IN  /\ new_checkpoint_state' =
                  StoreQuantized(new_checkpoint_state, k, ClampRound(weights, clamp_bits))
           /\ converted' = converted \cup {OutputKey(k)}
    /\ keys_left' = Tail(keys_left)
    /\ UNCHANGED <<tvars, nvars, arguments, input_file, checkpoint, checkpoint_state, sat_fn, factor_log,
                   c_pc, c_exc, file_writes, printed>>

\* lines 134-135
DropBaseBQ ==
    /\ InLoop
    /\ Parameter(CurKey) = "base_b_q"
    /\ new_checkpoint_state' = Del(new_checkpoint_state, CurKey)
    /\ keys_left' = Tail(keys_left)
    /\ UNCHANGED <<tvars, nvars, arguments, input_file, checkpoint, checkpoint_state, sat_fn, factor_log,
                   converted, c_pc, c_exc, file_writes, printed>>

\* any other parameter name: no branch of lines 86-135 applies
KeepOther ==
    /\ InLoop
    /\ Parameter(CurKey) \notin
           {"w_zero_point", "b_zero_point", "weight", "bias", "base_b_q"}
    /\ keys_left' = Tail(keys_left)
    /\ UNCHANGED <<tvars, nvars, arguments, input_file, checkpoint, checkpoint_state, new_checkpoint_state,
                   sat_fn, factor_log, converted, c_pc, c_exc, file_writes, printed>>

LoopDone == c_pc = "loop" /\ keys_left = <<>>

\* mutant: line 138 left out, the checkpoint is saved as it was loaded
SaveCheckpointUnconverted ==
    /\ c_pc = "loop" /\ keys_left = <<>>
    /\ ~arguments.embedded
    /\ file_writes' = Append(file_writes, checkpoint)
    /\ c_pc' = "done"
    /\ UNCHANGED <<tvars, nvars, arguments, input_file, checkpoint, checkpoint_state,
                   new_checkpoint_state, sat_fn, keys_left, factor_log, converted,
                   c_exc, printed>>

\* lines 137-139: the checkpoint is rewritten
SaveCheckpoint ==
    /\ LoopDone
    /\ ~arguments.embedded
    /\ checkpoint' = With(checkpoint, "state_dict", new_checkpoint_state)
    /\ file_writes' = Append(file_writes, checkpoint')
    /\ c_pc' = "done"
    /\ UNCHANGED <<tvars, nvars, arguments, input_file, checkpoint_state, new_checkpoint_state, sat_fn,
                   keys_left, factor_log, converted, c_exc, printed>>

\* lines 140-144: one '#define' block per key of the converted state
PrintParameters ==
    /\ LoopDone
    /\ arguments.embedded
    /\ printed' = Keys(new_checkpoint_state)
    /\ c_pc' = "done"
    /\ UNCHANGED <<tvars, nvars, arguments, input_file, checkpoint, checkpoint_state, new_checkpoint_state,
                   sat_fn, keys_left, factor_log, converted, c_exc, file_writes>>

NextConvert ==
    \/ RaiseNoMetadata
    \/ RaiseNoStateDict
    \/ Prepare
    \/ ZeroPointRaise
    \/ ZeroPointDrop
    \/ ConvertFloat
    \/ QuantizedUnpackError
    \/ QuantizedNotWrapped
    \/ QuantizedScaleMissing
    \/ ConvertQuantizedConv
    \/ ConvertQuantizedFc
    \/ DropBaseBQ
    \/ KeepOther
    \/ SaveCheckpoint
    \/ PrintParameters

SpecConvert == InitConvert /\ [][NextConvert]_vars

-----------------------------------------------------------------------------
(* Claims about convert_checkpoint, checked under SpecConvert *)

\* the state dict of the input file
InputState ==
    IF "state_dict" \in DOMAIN input_file THEN input_file["state_dict"] ELSE <<>>

NoOutput == file_writes = <<>> /\ printed = <<>>

Finished == c_pc \in {"done", "raised"}

AllInRange(t, bits) ==
    \A i \in DOMAIN t : \A j \in DOMAIN t[i] :
        InRange(t[i][j], -Pow2(bits - 1), Pow2(bits - 1) - 1)

\* C3: without --quantized, every element stored for a '.weight' or '.bias'
\* key is an integer in [-2^(clamp_bits-1), 2^(clamp_bits-1)-1], clamp_bits
\* being FC_CLAMP_BITS for top-level module 'fc' and WEIGHT_BITS otherwise,
\* for every input value and every clip mode.
C3_FloatOutputInRange ==
    ~arguments.quantized =>
        \A k \in converted :
            AllInRange(Get(new_checkpoint_state, k),
                       IF k[1] = "fc" THEN FC_CLAMP_BITS ELSE WEIGHT_BITS)

\* C4: with --quantized, every element stored for M.wrapped_module.weight or
\* M.wrapped_module.bias is an integer in [-2^(clamp_bits-1),
\* 2^(clamp_bits-1)-1], clamp_bits being FC_CLAMP_BITS for M = 'fc' and
\* WEIGHT_BITS otherwise, for every scale value.
C4_QuantizedOutputInRange ==
    arguments.quantized =>
        \A k \in converted :
            HasKey(new_checkpoint_state, k) /\
            AllInRange(Get(new_checkpoint_state, k),
                       IF Front(k) = <<"fc">> THEN FC_CLAMP_BITS ELSE WEIGHT_BITS)

\* the checkpoint the claim expects in the output file
ExpectedSaved ==
    With(IF arguments.quantized
         THEN Without(input_file, "quantizer_metadata")
         ELSE input_file,
         "state_dict", new_checkpoint_state)

\* C5: without --embedded a run that completes writes the output file exactly
\* once, with the input checkpoint whose 'state_dict' is the converted state
\* and whose 'quantizer_metadata' is removed under --quantized; with
\* --embedded the file is never written and a run that completes prints one
\* '#define' block per key of the converted state.
C5_OutputMode ==
    /\ Len(file_writes) <= 1
    /\ arguments.embedded => file_writes = <<>>
    /\ (c_pc = "done" /\ ~arguments.embedded) => file_writes = <<ExpectedSaved>>
    /\ (c_pc = "done" /\ arguments.embedded) => printed = Keys(new_checkpoint_state)

C5_Witness ==
    /\ c_pc = "done"
    /\ ~arguments.embedded
    /\ arguments.quantized
    /\ converted # {}
    /\ file_writes = <<ExpectedSaved>>
    /\ file_writes[1]["state_dict"] # InputState

\* the saturation value the claim names for a key and a clip mode
ClaimedSat(clip_mode, k, t) ==
    IF k[1] = "fc" THEN MagicConst
    ELSE CASE clip_mode = "STD" -> mean_n_stds_max_abs(t, 2)
           [] clip_mode = "MAX" -> max_max(t)
           [] clip_mode = "AVGMAX" -> avg_max(t)
           [] OTHER -> MagicConst

\* C6: without --quantized the factor of every converted parameter is
\* 2^(clamp_bits-1) times the saturation function of the clip mode: 'STD'
\* mean_n_stds_max_abs with n_stds=2, 'MAX' max_max, 'AVGMAX' avg_max, any
\* other mode the constant; parameters of top-level module 'fc' use the
\* constant whatever the clip mode.
C6_SaturationByClipMode ==
    \A i \in DOMAIN factor_log :
        LET e == factor_log[i]
            bits == IF e.key[1] = "fc" THEN FC_CLAMP_BITS ELSE WEIGHT_BITS
        IN  e.factor = Mul(Int2F(Pow2(bits - 1)),
                           ClaimedSat(arguments.clip_mode, e.key,
                                      Get(InputState, e.key)))

C6_Witness ==
    /\ Len(factor_log) = 2
    /\ arguments.clip_mode = "MAX"
    /\ factor_log[1].key[1] = "fc"
    /\ factor_log[2].key[1] # "fc"
    /\ IsFin(factor_log[2].factor)
    /\ factor_log[2].factor # Mul(Int2F(Pow2(WEIGHT_BITS - 1)), MagicConst)
    /\ max_max(Get(InputState, factor_log[2].key))
         # avg_max(Get(InputState, factor_log[2].key))

\* C8: --quantized on a checkpoint without 'quantizer_metadata' raises
\* RuntimeError before any parameter is converted and writes or prints
\* nothing; without --quantized the absence raises nothing: the run gets past
\* the check and a later raise comes from a key of the loop.
C8_MissingMetadata ==
    /\ (/\ arguments.quantized
        /\ "quantizer_metadata" \notin DOMAIN input_file
        /\ c_pc # "start")
       => /\ c_pc = "raised"
          /\ c_exc = "RuntimeError"
          /\ converted = {}
          /\ new_checkpoint_state = <<>>
          /\ NoOutput
    /\ (/\ ~arguments.quantized
        /\ "quantizer_metadata" \notin DOMAIN input_file
        /\ "state_dict" \in DOMAIN input_file
        /\ c_pc # "start")
       => /\ sat_fn # "none"
          /\ c_pc = "raised" => keys_left # <<>>

C8_Witness ==
    /\ arguments.quantized
    /\ "quantizer_metadata" \notin DOMAIN input_file
    /\ Len(InputState) = 2
    /\ c_pc = "raised"
    /\ c_exc = "RuntimeError"

\* C9: a checkpoint without 'state_dict' raises RuntimeError in every mode
\* and nothing is written or printed.
C9_MissingStateDict ==
    ("state_dict" \notin DOMAIN input_file /\ c_pc # "start")
       => /\ c_pc = "raised"
          /\ c_exc = "RuntimeError"
          /\ NoOutput

C9_Witness ==
    /\ "state_dict" \notin DOMAIN input_file
    /\ "quantizer_metadata" \in DOMAIN input_file
    /\ arguments.quantized
    /\ arguments.embedded
    /\ c_pc = "raised"

\* the entry is a zero point with an element that is not zero
IsNonzeroZeroPoint(e) ==
    /\ Last(e.key) \in {"w_zero_point", "b_zero_point"}
    /\ \E i \in DOMAIN e.val : \E j \in DOMAIN e.val[i] : e.val[i][j] # Int2F(0)

NonzeroZeroPoint == \E i \in DOMAIN InputState : IsNonzeroZeroPoint(InputState[i])

\* no zero point and no base_b_q is left in the converted state
ZeroPointsDropped ==
    \A i \in DOMAIN new_checkpoint_state :
        Last(new_checkpoint_state[i].key)
            \notin {"w_zero_point", "b_zero_point", "base_b_q"}

\* C10 as stated: a zero point with a nonzero element makes the run raise
\* RuntimeError and write nothing; otherwise no zero-point key and no
\* base_b_q key is in the output state.
C10_ZeroPointRuntimeError ==
    /\ (NonzeroZeroPoint /\ Finished)
       => (c_pc = "raised" /\ c_exc = "RuntimeError" /\ NoOutput)
    /\ (~NonzeroZeroPoint /\ c_pc = "done") => ZeroPointsDropped

\* the run stopped at a weight or bias key that comes before every zero
\* point with a nonzero element
EarlierKeyRaised ==
    /\ c_exc \in {"ValueError", "KeyError"}
    /\ keys_left # <<>>
    /\ Parameter(Head(keys_left)) \in {"weight", "bias"}
    /\ \A i \in DOMAIN InputState :
           IsNonzeroZeroPoint(InputState[i])
              => \E j \in 2 .. Len(keys_left) : keys_left[j] = InputState[i].key

\* C10 amended: a zero point with a nonzero element makes the run raise and
\* write nothing; the exception is RuntimeError unless an earlier key of the
\* state dict raised first (ValueError or KeyError of a weight or bias);
\* otherwise no zero-point key and no base_b_q key is in the output state.
C10_ZeroPointRaises ==
    /\ (NonzeroZeroPoint /\ Finished)
       => /\ c_pc = "raised"
          /\ NoOutput
          /\ c_exc = "RuntimeError" \/ EarlierKeyRaised
    /\ (~NonzeroZeroPoint /\ c_pc = "done") => ZeroPointsDropped

C10_Witness ==
    /\ NonzeroZeroPoint
    /\ c_pc = "raised"
    /\ c_exc = "RuntimeError"
    /\ converted # {}
    /\ NoOutput

-----------------------------------------------------------------------------
(* main's training stage (train.py lines 334-385) and train() (lines        *)
(* 392-501).  Every call the claims are about is recorded in calls, with    *)
(* its epoch and, for the calls of a training step, its step (-1 for the    *)
(* calls of main).                                                          *)

Call(f, e, st) == [f |-> f, e |-> e, s |-> st]

\* a call of main, of epoch `epoch`
MainCall(f) == Append(calls, Call(f, epoch, -1))

\* a call of the training step train_step
StepCall(f) == Append(calls, Call(f, epoch, train_step))

\* a call made only when a scheduler is present (if compression_scheduler:)
SchedulerMainCall(f) == IF compression_scheduler THEN MainCall(f) ELSE calls
SchedulerStepCall(f) == IF compression_scheduler THEN StepCall(f) ELSE calls

\* lines 144-145, 215-296, 316-325: the state main reaches line 334 in; a
\* scheduler is always present there (lines 289-296)
InitTrain ==
    /\ start_epoch \in 0 .. MaxEpochs
    /\ ending_epoch \in 0 .. MaxEpochs
    /\ steps_per_epoch \in 0 .. MaxSteps
    /\ compression_scheduler = TRUE
    /\ epoch = 0
    /\ train_step = 0
    /\ calls = <<>>
    /\ t_pc = "check_epochs"
    /\ t_exc = "none"
    /\ ConvertIdle
    /\ NormalizeIdle

\* the head of `for epoch in range(start_epoch, ending_epoch)`, line 340,
\* for the next value e of epoch
LoopHead(e) == IF e < ending_epoch THEN "on_epoch_begin" ELSE "test"

\* mutant: the check of lines 334-337 left out, the empty range of line 340
\* is skipped and line 385 runs the test pass
SkipEpochsTooLow ==
    /\ t_pc = "check_epochs"
    /\ start_epoch >= ending_epoch
    /\ epoch' = start_epoch
    /\ t_pc' = LoopHead(start_epoch)
    /\ UNCHANGED <<cvars, nvars, start_epoch, ending_epoch, steps_per_epoch,
                   train_step, compression_scheduler, calls, t_exc>>

\* lines 334-337
RaiseEpochsTooLow ==
    /\ t_pc = "check_epochs"
    /\ start_epoch >= ending_epoch
    /\ t_pc' = "raised"
    /\ t_exc' = "ValueError"
    /\ UNCHANGED <<cvars, nvars, start_epoch, ending_epoch, epoch, steps_per_epoch,
                   train_step, compression_scheduler, calls>>

\* lines 339-340
EnterLoop ==
    /\ t_pc = "check_epochs"
    /\ start_epoch < ending_epoch
    /\ epoch' = start_epoch
    /\ t_pc' = LoopHead(start_epoch)
    /\ UNCHANGED <<cvars, nvars, start_epoch, ending_epoch, steps_per_epoch,
                   train_step, compression_scheduler, calls, t_exc>>

\* lines 343-344
OnEpochBegin ==
    /\ t_pc = "on_epoch_begin"
    /\ calls' = SchedulerMainCall("on_epoch_begin")
    /\ t_pc' = "train"
    /\ UNCHANGED <<cvars, nvars, start_epoch, ending_epoch, epoch, steps_per_epoch,
                   train_step, compression_scheduler, t_exc>>

\* the head of `for train_step, ... in enumerate(train_loader)`, line 418,
\* for the next value st of train_step
StepHead(st) == IF st < steps_per_epoch THEN "on_minibatch_begin" ELSE "validate"

\* lines 348 and 395-418: train() is called and reaches its loop
Train ==
    /\ t_pc = "train"
    /\ calls' = MainCall("train")
    /\ train_step' = 0
    /\ t_pc' = StepHead(0)
    /\ UNCHANGED <<cvars, nvars, start_epoch, ending_epoch, epoch, steps_per_epoch,
                   compression_scheduler, t_exc>>

\* a statement of the training step that leaves all but calls and t_pc alone
StepStatement(at, new_calls, next) ==
    /\ t_pc = at
    /\ calls' = new_calls
    /\ t_pc' = next
    /\ UNCHANGED <<cvars, nvars, start_epoch, ending_epoch, epoch, steps_per_epoch,
                   train_step, compression_scheduler, t_exc>>

\* lines 424-425
OnMinibatchBegin ==
    StepStatement("on_minibatch_begin", SchedulerStepCall("on_minibatch_begin"),
                  "forward")

\* lines 427-430: model(inputs), or the forward pass of the distillation policy
Forward ==
    StepStatement("forward", StepCall("forward"), "loss")

\* mutant: line 446 left out, the backward pass follows the loss at once
LossThenBackward ==
    StepStatement("loss", StepCall("loss"), "zero_grad")

\* lines 432-441
Loss ==
    StepStatement("loss", StepCall("loss"), "before_backward_pass")

\* lines 443-458
BeforeBackwardPass ==
    StepStatement("before_backward_pass", SchedulerStepCall("before_backward_pass"),
                  "zero_grad")

\* line 461
ZeroGrad ==
    StepStatement("zero_grad", StepCall("zero_grad"), "backward")

\* line 462
Backward ==
    StepStatement("backward", StepCall("backward"), "before_parameter_optimization")

\* lines 463-465
BeforeParameterOptimization ==
    StepStatement("before_parameter_optimization",
                  SchedulerStepCall("before_parameter_optimization"), "optimizer_step")

\* line 466
OptimizerStep ==
    StepStatement("optimizer_step", StepCall("optimizer_step"), "on_minibatch_end")

\* lines 467-500 and the loop head of line 418: the step ends, the next one
\* starts or train() returns
OnMinibatchEnd ==
    /\ t_pc = "on_minibatch_end"
    /\ calls' = SchedulerStepCall("on_minibatch_end")
    /\ train_step' = train_step + 1
    /\ t_pc' = StepHead(train_step + 1)
    /\ UNCHANGED <<cvars, nvars, start_epoch, ending_epoch, epoch, steps_per_epoch,
                   compression_scheduler, t_exc>>

\* lines 357-368
Validate ==
    /\ t_pc = "validate"
    /\ calls' = MainCall("validate")
    /\ t_pc' = "on_epoch_end"
    /\ UNCHANGED <<cvars, nvars, start_epoch, ending_epoch, epoch, steps_per_epoch,
                   train_step, compression_scheduler, t_exc>>

\* lines 370-371
OnEpochEnd ==
    /\ t_pc = "on_epoch_end"
    /\ calls' = SchedulerMainCall("on_epoch_end")
    /\ t_pc' = "save_checkpoint"
    /\ UNCHANGED <<cvars, nvars, start_epoch, ending_epoch, epoch, steps_per_epoch,
                   train_step, compression_scheduler, t_exc>>

\* lines 374-382 and the loop head of line 340
SaveEpochCheckpoint ==
    /\ t_pc = "save_checkpoint"
    /\ calls' = MainCall("save_checkpoint")
    /\ epoch' = epoch + 1
    /\ t_pc' = LoopHead(epoch + 1)
    /\ UNCHANGED <<cvars, nvars, start_epoch, ending_epoch, steps_per_epoch,
                   train_step, compression_scheduler, t_exc>>

\* line 385
Test ==
    /\ t_pc = "test"
    /\ calls' = MainCall("test")
    /\ t_pc' = "done"
    /\ UNCHANGED <<cvars, nvars, start_epoch, ending_epoch, epoch, steps_per_epoch,
                   train_step, compression_scheduler, t_exc>>

NextTrain ==
    \/ RaiseEpochsTooLow
    \/ EnterLoop
    \/ OnEpochBegin
    \/ Train
    \/ OnMinibatchBegin
    \/ Forward
    \/ Loss
    \/ BeforeBackwardPass
    \/ ZeroGrad
    \/ Backward
    \/ BeforeParameterOptimization
    \/ OptimizerStep
    \/ OnMinibatchEnd
    \/ Validate
    \/ OnEpochEnd
    \/ SaveEpochCheckpoint
    \/ Test

SpecTrain == InitTrain /\ [][NextTrain]_vars

-----------------------------------------------------------------------------
(* Claims about the training loop, checked under SpecTrain *)

IsPrefix(s, t) == Len(s) <= Len(t) /\ s = SubSeq(t, 1, Len(s))

Names(s) == [i \in DOMAIN s |-> s[i].f]

EpochCallOrder ==
    <<"on_epoch_begin", "train", "validate", "save_checkpoint", "on_epoch_end">>

\* the calls of main made for epoch e, in order
EpochCalls(e) ==
    Names(SelectSeq(calls, LAMBDA c : c.e = e /\ c.s = -1 /\ c.f # "test"))

\* C1: in every epoch the calls of main are on_epoch_begin, train, validate,
\* save_checkpoint, on_epoch_end, in this order: the checkpoint of an epoch
\* is saved before on_epoch_end is called for it.
C1_EpochCallOrder ==
    \A e \in 0 .. MaxEpochs : IsPrefix(EpochCalls(e), EpochCallOrder)

StepCallOrder ==
    <<"on_minibatch_begin", "forward", "loss", "before_backward_pass", "backward",
      "before_parameter_optimization", "optimizer_step", "on_minibatch_end">>

\* the calls of step st of epoch e that the claim names, in order
StepCalls(e, st) ==
    Names(SelectSeq(calls, LAMBDA c : c.e = e /\ c.s = st /\ c.f # "zero_grad"))

\* C2: with a scheduler present, the calls of every training step are
\* on_minibatch_begin, forward, loss, before_backward_pass, backward,
\* before_parameter_optimization, optimizer_step, on_minibatch_end, in this
\* order, and when a step starts every earlier step has made its
\* on_minibatch_end.
C2_StepCallOrder ==
    compression_scheduler =>
        /\ \A e \in 0 .. MaxEpochs : \A st \in 0 .. MaxSteps :
               IsPrefix(StepCalls(e, st), StepCallOrder)
        /\ \A i \in DOMAIN calls :
               calls[i].f = "on_minibatch_begin" =>
                   \A j \in 1 .. i - 1 :
                       calls[j].s # -1 =>
                           \E m \in j .. i - 1 :
                               /\ calls[m].f = "on_minibatch_end"
                               /\ calls[m].e = calls[j].e
                               /\ calls[m].s = calls[j].s

C2_Witness ==
    /\ compression_scheduler
    /\ \E i \in DOMAIN calls :
           /\ calls[i].f = "on_minibatch_end"
           /\ calls[i].s = 1
           /\ StepCalls(calls[i].e, 1) = StepCallOrder
           /\ StepCalls(calls[i].e, 0) = StepCallOrder

\* C11: once the training stage is reached with start_epoch >= ending_epoch,
\* ValueError is raised and nothing of the training loop runs: no scheduler
\* epoch callback, no train or validate, no checkpoint saved, no test pass.
C11_EpochsTooLow ==
    (start_epoch >= ending_epoch /\ t_pc # "check_epochs")
       => /\ t_pc = "raised"
          /\ t_exc = "ValueError"
          /\ calls = <<>>

C11_Witness ==
    /\ start_epoch = ending_epoch
    /\ start_epoch > 0
    /\ t_pc = "raised"
    /\ t_exc = "ValueError"
    /\ calls = <<>>

-----------------------------------------------------------------------------
(* normalize (train.py lines 917-927), applied to one pixel *)

\* mutant: the clamp of line 926 left out
NormalizeNoClamp(mode_8bit, x) ==
    IF mode_8bit
    THEN RoundF(Mul(Sub(x, Fin(1, 2)), Int2F(256)))
    ELSE Sub(x, Fin(1, 2))

\* lines 924-927: __call__
Normalize(mode_8bit, x) ==
    IF mode_8bit
    THEN ClampF(RoundF(Mul(Sub(x, Fin(1, 2)), Int2F(256))), -128, 127)
    ELSE Sub(x, Fin(1, 2))

\* a pixel of an image tensor is in [0, 1]
InitNormalize ==
    /\ act_mode_8bit \in BOOLEAN
    /\ img \in 0 .. PixelDen
    /\ n_result = Int2F(0)
    /\ n_pc = "call"
    /\ ConvertIdle
    /\ TrainIdle

NormalizeCall ==
    /\ n_pc = "call"
    /\ n_result' = Normalize(act_mode_8bit, Fin(img, PixelDen))
    /\ n_pc' = "returned"
    /\ UNCHANGED <<cvars, tvars, act_mode_8bit, img>>

NextNormalize == NormalizeCall

SpecNormalize == InitNormalize /\ [][NextNormalize]_vars

\* C7: for a pixel in [0, 1] the result is in [-0.5, +0.5] when
\* act_mode_8bit is false, and an integer in [-128, +127] when it is true,
\* 1.0 giving 127 and 0.0 giving -128.
C7_NormalizeRange ==
    n_pc = "returned" =>
        IF act_mode_8bit
        THEN /\ InRange(n_result, -128, 127)
             /\ img = PixelDen => n_result = Int2F(127)
             /\ img = 0 => n_result = Int2F(-128)
        ELSE /\ IsFin(n_result)
             /\ Leq(Fin(-1, 2), n_result)
             /\ Leq(n_result, Fin(1, 2))

C7_Witness ==
    /\ n_pc = "returned"
    /\ act_mode_8bit
    /\ img = PixelDen
    /\ n_result = Int2F(127)

====
